---- MODULE Spec2Model ----
(***************************************************************************)
(* A model of finder (src/finder.js): synthesis of a CSS query that        *)
(* matches exactly one element of a document.                              *)
(*                                                                         *)
(* The document is a finite ordered tree of elements numbered 1..n in      *)
(* document (preorder) order; element 1 is the document element <html>,    *)
(* whose parentNode is the document and whose parentElement is null.       *)
(* A fragment name such as  div , .c , #a , [role="x"] , * or              *)
(* .c:nth-child(2)  is kept in parsed form as a record                     *)
(* [kind, key, val, nth]; an assembled query is the sequence of its        *)
(* compound selectors, outermost first, each with the combinator that      *)
(* follows it.  Penalties are kept doubled (0, 1, 2, 4, 6, +2) so that the *)
(* attribute penalty 0.5 stays an integer.                                 *)
(***************************************************************************)
EXTENDS Integers, Sequences, FiniteSets, TLC

VARIABLES
    tree,         \* the document: [n, parent, node]; never modified
    input,        \* the target: an element 1..n, or 0 for a non-element node
    options,      \* the options the caller passes to finder()
    config,       \* finder__config
    rootDocument, \* finder__rootDocument
    pc,           \* "start", "search", "optimize", "done", "error"
    frames,       \* call stack of finder__bottomUpSearch activations
    started,      \* the policies whose walk was started, in order of start
    optStack,     \* call stack of finder__optimize activations
    scope,        \* the optimizer's shared scope: [counter, visited]
    found,        \* the path the search returned (Null before that)
    emitted,      \* the paths the optimizer yielded, in order
    tested,       \* the queries the optimizer gave to finder__unique, in order
    queries,      \* number of tree queries (querySelectorAll, querySelector)
    overflows,    \* number of stacks with more candidates than the threshold
    chosen,       \* the path finder() assembles its result from (Null before)
    result,       \* the query finder() returned (Null if none)
    error         \* the error finder() threw ("" if none)

vars == <<tree, input, options, config, rootDocument, pc, frames, started,
          optStack, scope, found, emitted, tested, queries, overflows, chosen,
          result, error>>

----------------------------------------------------------------------------
(* Bounds of the model *)

\* the largest number of elements of a document
MaxNodes == 4

----------------------------------------------------------------------------
(* The document *)

Null == <<>>

Undefined == [undefined |-> TRUE]

Elem(tag, id, classes, attrs) ==
    [tag |-> tag, id |-> id, classes |-> classes, attrs |-> attrs]

\* what the document element may look like
RootKinds ==
    { Elem("html", "", <<>>, <<>>),
      Elem("html", "", <<"c">>, <<>>),
      Elem("html", "a", <<>>, <<>>) }

\* what any other element may look like
NodeKinds ==
    { Elem("div", "", <<>>, <<>>),
      Elem("div", "a", <<>>, <<>>),
      Elem("p", "", <<"c", "d">>, <<[name |-> "role", value |-> "x"]>>) }

\* parentElement chain of e in the parent vector p, e included
RECURSIVE Chain(_, _)
Chain(p, e) == IF e = 0 THEN {} ELSE {e} \cup Chain(p, p[e])

\* parent vectors of the ordered trees of n elements in preorder numbering:
\* the parent of element e > 1 is e - 1 or one of its ancestors
ParentVectors(n) ==
    { p \in [1..n -> 0..n] :
        /\ p[1] = 0
        /\ \A e \in 2..n : p[e] \in 1..(e - 1) /\ p[e] \in Chain(p, e - 1) }

Trees ==
    UNION { { [n |-> n, parent |-> p, node |-> l] :
                p \in ParentVectors(n),
                l \in { f \in [1..n -> RootKinds \cup NodeKinds] :
                          /\ f[1] \in RootKinds
                          /\ \A e \in 2..n : f[e] \in NodeKinds } } :
            n \in 1..MaxNodes }

parentElement(e) == tree.parent[e]

Ancestors(e) == Chain(tree.parent, e) \ {e}

\* Element.matches for one compound selector
MatchesName(e, name) ==
    /\ CASE name.kind = "id"    -> tree.node[e].id = name.val
         [] name.kind = "attr"  -> \E k \in DOMAIN tree.node[e].attrs :
                                      /\ tree.node[e].attrs[k].name = name.key
                                      /\ tree.node[e].attrs[k].value = name.val
         [] name.kind = "class" -> \E k \in DOMAIN tree.node[e].classes :
                                      tree.node[e].classes[k] = name.val
         [] name.kind = "tag"   -> tree.node[e].tag = name.val
         [] OTHER               -> TRUE
    /\ \/ name.nth = 0
       \/ name.nth = Cardinality({ c \in 1..e : tree.parent[c] = tree.parent[e] })

\* e matches the first k compound selectors of the query q
RECURSIVE MatchesQuery(_, _, _)
MatchesQuery(e, q, k) ==
    /\ MatchesName(e, q[k].name)
    /\ \/ k = 1
       \/ /\ q[k - 1].comb = ">"
          /\ parentElement(e) # 0
          /\ MatchesQuery(parentElement(e), q, k - 1)
       \/ /\ q[k - 1].comb = " "
          /\ \E a \in Ancestors(e) : MatchesQuery(a, q, k - 1)

querySelectorAll(q) == { e \in 1..tree.n : MatchesQuery(e, q, Len(q)) }

\* the first match in document order, 0 if there is none
querySelector(q) ==
    IF querySelectorAll(q) = {} THEN 0
    ELSE CHOOSE e \in querySelectorAll(q) : \A f \in querySelectorAll(q) : e <= f

----------------------------------------------------------------------------
(* Configuration *)

defaults ==
    [ idName            |-> "all",
      className         |-> "all",
      tagName           |-> "all",
      attr              |-> "none",
      seedMinLength     |-> 1,
      optimizedMinLength |-> 2,
      threshold         |-> 1000,
      maxNumberOfTries  |-> 10000 ]

\* { ...defaults, ...options }
Merge(d, o) ==
    [ k \in DOMAIN d \cup DOMAIN o |-> IF k \in DOMAIN o THEN o[k] ELSE d[k] ]

\* a predicate of the configuration, applied: "all" accepts every name,
\* "none" rejects every name, any other value accepts that name only
Accepts(pred, name) == pred = "all" \/ (pred # "none" /\ pred = name)

----------------------------------------------------------------------------
(* Fragments (knots) *)

Name(kind, key, val) == [kind |-> kind, key |-> key, val |-> val, nth |-> 0]

Knot(name, penalty) == [name |-> name, penalty |-> penalty]

\* mutant of finder__id: the identifier predicate is negated
finder__idNegated(e) ==
    IF tree.node[e].id # "" /\ ~Accepts(config.idName, tree.node[e].id)
    THEN Knot(Name("id", "", tree.node[e].id), 0)
    ELSE Null

finder__id(e) ==
    IF tree.node[e].id # "" /\ Accepts(config.idName, tree.node[e].id)
    THEN Knot(Name("id", "", tree.node[e].id), 0)
    ELSE Null

finder__attr(e) ==
    LET attrs == SelectSeq(tree.node[e].attrs,
                           LAMBDA a : Accepts(config.attr, a.name))
    IN  [ k \in DOMAIN attrs |->
            Knot(Name("attr", attrs[k].name, attrs[k].value), 1) ]

finder__classNames(e) ==
    LET names == SelectSeq(tree.node[e].classes,
                           LAMBDA c : Accepts(config.className, c))
    IN  [ k \in DOMAIN names |-> Knot(Name("class", "", names[k]), 2) ]

finder__tagName(e) ==
    IF Accepts(config.tagName, tree.node[e].tag)
    THEN Knot(Name("tag", "", tree.node[e].tag), 4)
    ELSE Null

finder__any == Knot(Name("any", "", "*"), 6)

\* mutant of finder__index: the loop over the siblings has no break, so all
\* element children of the parent are counted
finder__indexNoBreak(e) ==
    Cardinality({ c \in 1..tree.n : tree.parent[c] = tree.parent[e] })

\* 1-based position of e among the element children of its parentNode
\* (the document element is the only element child of the document)
finder__index(e) ==
    Cardinality({ c \in 1..e : tree.parent[c] = tree.parent[e] })

finder__nthChild(node, i) ==
    Knot([node.name EXCEPT !.nth = i], node.penalty + 2)

finder__dispensableNth(node) ==
    /\ node.name # Name("tag", "", "html")
    /\ node.name.kind # "id"

finder__notEmpty(value) == value # Null

finder__maybe(level) ==
    LET list == SelectSeq(level, finder__notEmpty)
    IN  IF Len(list) > 0 THEN list ELSE Null

\* a || b for values of which only Null is falsy
OrElse(a, b) == IF a # Null THEN a ELSE b

\* mutant of BaseLevel: the fragments of every kind are kept, not only
\* those of the first kind that has any
BaseLevelEveryKind(e) ==
    OrElse(finder__maybe(<<finder__id(e)>> \o finder__attr(e)
                           \o finder__classNames(e) \o <<finder__tagName(e)>>),
           <<finder__any>>)

\* the base level of e: the first non-empty kind of fragments
BaseLevel(e) ==
    OrElse(finder__maybe(<<finder__id(e)>>),
    OrElse(finder__maybe(finder__attr(e)),
    OrElse(finder__maybe(finder__classNames(e)),
    OrElse(finder__maybe(<<finder__tagName(e)>>),
           <<finder__any>>))))

NthClones(level, nth) ==
    LET d == SelectSeq(level, finder__dispensableNth)
    IN  [ k \in DOMAIN d |-> finder__nthChild(d[k], nth) ]

\* the level finder__bottomUpSearch builds for the element current under
\* the policy limit, every fragment stamped with the level number i
Level(current, limit, i) ==
    LET base == BaseLevel(current)
        nth  == finder__index(current)
        one  == SubSeq(base, 1, 1)
        lvl  == CASE limit = "all" ->
                       IF nth # 0 THEN base \o NthClones(base, nth) ELSE base
                  [] limit = "two" ->
                       IF nth # 0 THEN one \o NthClones(one, nth) ELSE one
                  [] limit = "one" ->
                       IF nth # 0 /\ finder__dispensableNth(one[1])
                       THEN <<finder__nthChild(one[1], nth)>> ELSE one
                  [] OTHER ->
                       IF nth # 0 THEN <<finder__nthChild(finder__any, nth)>>
                       ELSE <<finder__any>>
    IN  [ k \in DOMAIN lvl |->
            [name |-> lvl[k].name, penalty |-> lvl[k].penalty, level |-> i] ]

----------------------------------------------------------------------------
(* Paths *)

\* mutant of finder__selector: the levels are not compared, every two
\* neighbours are joined by ">"
finder__selectorChildOnly(path) ==
    [ k \in 1..Len(path) |->
        [ name |-> path[Len(path) + 1 - k].name,
          comb |-> IF Len(path) + 1 - k = 1 THEN "$" ELSE ">" ] ]

\* the query of a path: path[1] is the target's fragment; two neighbours
\* are joined by ">" when their levels differ by one, by " " otherwise
finder__selector(path) ==
    [ k \in 1..Len(path) |->
        LET j == Len(path) + 1 - k
        IN  [ name |-> path[j].name,
              comb |-> IF j = 1 THEN "$"
                       ELSE IF path[j - 1].level = path[j].level - 1 THEN ">"
                       ELSE " " ] ]

RECURSIVE finder__penalty(_)
finder__penalty(path) ==
    IF path = <<>> THEN 0 ELSE Head(path).penalty + finder__penalty(Tail(path))

\* mutant of finder__unique: any number of matches but zero counts as unique
finder__uniqueIfAny(path) ==
    LET count == Cardinality(querySelectorAll(finder__selector(path)))
    IN  IF count = 0 THEN "throw" ELSE "true"

\* "throw" when the query matches nothing, else whether it matches one node
finder__unique(path) ==
    LET count == Cardinality(querySelectorAll(finder__selector(path)))
    IN  IF count = 0 THEN "throw" ELSE IF count = 1 THEN "true" ELSE "false"

finder__same(path, e) == querySelector(finder__selector(path)) = e

\* mutant of finder__combinations: the last level of the stack is the
\* outermost in the iteration, so the first level (the target's) varies
\* fastest
RECURSIVE finder__combinationsLastOuter(_, _)
finder__combinationsLastOuter(stack, path) ==
    IF Len(stack) = 0 THEN <<path>>
    ELSE LET inner == finder__combinationsLastOuter(
                          SubSeq(stack, 1, Len(stack) - 1), path)
             last  == stack[Len(stack)]
             RECURSIVE Over(_)
             Over(k) == IF k > Len(last) THEN <<>>
                        ELSE [m \in DOMAIN inner |-> Append(inner[m], last[k])]
                               \o Over(k + 1)
         IN  Over(1)

\* the cartesian product of the levels of the stack, the first level
\* (the target's) outermost in the iteration
RECURSIVE finder__combinations(_, _)
RECURSIVE CombinationsOver(_, _, _)
finder__combinations(stack, path) ==
    IF Len(stack) > 0 THEN CombinationsOver(stack, path, 1) ELSE <<path>>
CombinationsOver(stack, path, k) ==
    IF k > Len(stack[1]) THEN <<>>
    ELSE finder__combinations(Tail(stack), Append(path, stack[1][k]))
           \o CombinationsOver(stack, path, k + 1)

\* the paths of s whose penalty is one of vals, by ascending penalty, paths
\* of one penalty in the order they have in s
RECURSIVE ByPenalty(_, _, _)
ByPenalty(s, pen, vals) ==
    IF vals = {} THEN <<>>
    ELSE LET v    == CHOOSE x \in vals : \A y \in vals : x <= y
             idx  == SelectSeq([k \in DOMAIN s |-> k], LAMBDA k : pen[k] = v)
         IN  [k \in DOMAIN idx |-> s[idx[k]]] \o ByPenalty(s, pen, vals \ {v})

\* mutant of finder__sort: the comparator is reversed, penalty(b) - penalty(a)
finder__sortDescending(paths) ==
    LET pen == [k \in DOMAIN paths |-> 0 - finder__penalty(paths[k])]
    IN  ByPenalty(paths, pen, { pen[k] : k \in DOMAIN paths })

\* [...paths].sort((a, b) => penalty(a) - penalty(b)): a stable sort
finder__sort(paths) ==
    LET pen == [k \in DOMAIN paths |-> finder__penalty(paths[k])]
    IN  ByPenalty(paths, pen, { pen[k] : k \in DOMAIN paths })

----------------------------------------------------------------------------
(* finder__findUniquePath *)

\* the candidates from the k-th on, tried in order: the first unique one,
\* Null when none is, "throw" when a candidate matches nothing;
\* tests counts the calls of finder__unique
RECURSIVE Scan(_, _)
Scan(paths, k) ==
    IF k > Len(paths)
    THEN [kind |-> "null", path |-> Null, tests |-> k - 1, overflow |-> FALSE]
    ELSE LET u == finder__unique(paths[k])
         IN  IF u = "throw"
             THEN [kind |-> "throw", path |-> Null, tests |-> k, overflow |-> FALSE]
             ELSE IF u = "true"
                  THEN [kind |-> "path", path |-> paths[k], tests |-> k,
                        overflow |-> FALSE]
                  ELSE Scan(paths, k + 1)

\* kind "fallback": the caller's fallback is to be called and its value
\* returned
finder__findUniquePath(stack, hasFallback) ==
    LET paths == finder__sort(finder__combinations(stack, <<>>))
    IN  IF Len(paths) > config.threshold
        THEN IF hasFallback
             THEN [kind |-> "fallback", path |-> Null, tests |-> 0, overflow |-> TRUE]
             ELSE [kind |-> "null", path |-> Null, tests |-> 0, overflow |-> TRUE]
        ELSE Scan(paths, 1)

----------------------------------------------------------------------------
(* finder__bottomUpSearch as a call stack *)

HasFallback(limit) == limit # "none"

\* mutant of NextLimit: the fallback of "all" starts "one"
NextLimitSkipsTwo(limit) ==
    CASE limit = "all" -> "one"
      [] limit = "two" -> "one"
      [] OTHER         -> "none"

\* the policy the fallback closure of a walk starts
NextLimit(limit) ==
    CASE limit = "all" -> "two"
      [] limit = "two" -> "one"
      [] OTHER         -> "none"

\* a fresh activation: let path = null, stack = [], current = input, i = 0
NewFrame(limit) ==
    [ limit |-> limit, path |-> Null, stack |-> <<>>, current |-> input,
      i |-> 0, at |-> "loop" ]

Top == frames[Len(frames)]

SetTop(f) == [frames EXCEPT ![Len(frames)] = f]

\* mutant of Advance: the walk does not move to the parent
AdvanceStays(f) == [f EXCEPT !.at = "loop"]

\* current = current.parentElement; i++
Advance(f) ==
    [f EXCEPT !.current = parentElement(f.current), !.i = f.i + 1, !.at = "loop"]

\* the topmost activation of fs returns v: its caller goes on where it
\* waited; a caller that waited in "return fallback()" returns v in turn
RECURSIVE Unwind(_, _)
Unwind(fs, v) ==
    LET rest == SubSeq(fs, 1, Len(fs) - 1)
        c    == rest[Len(rest)]
    IN  IF rest = <<>> THEN <<>>
        ELSE IF c.at = "w_tail" THEN Unwind(rest, v)
        ELSE IF c.at = "w_final"
             THEN [rest EXCEPT ![Len(rest)] = [c EXCEPT !.path = v, !.at = "tail"]]
        ELSE IF v # Null
             THEN [rest EXCEPT ![Len(rest)] = [c EXCEPT !.path = v, !.at = "final"]]
             ELSE [rest EXCEPT ![Len(rest)] = Advance(c)]

----------------------------------------------------------------------------
(* Initial states: a document, a target and the caller's options *)

OptionSets ==
    { <<>>,
      [threshold |-> 1],
      [seedMinLength |-> 4],
      [tagName |-> "none", className |-> "none"],
      [attr |-> "role", optimizedMinLength |-> 3, seedMinLength |-> 3],
      [idName |-> "none", threshold |-> 3, maxNumberOfTries |-> 1,
       seedMinLength |-> 4] }

Init ==
    /\ tree \in Trees
    /\ input \in 0..tree.n
    /\ options \in OptionSets
    /\ config = Undefined
    /\ rootDocument = Undefined
    /\ pc = "start"
    /\ frames = <<>>
    /\ started = <<>>
    /\ optStack = <<>>
    /\ scope = Undefined
    /\ found = Null
    /\ emitted = <<>>
    /\ tested = <<>>
    /\ queries = 0
    /\ overflows = 0
    /\ chosen = Null
    /\ result = Null
    /\ error = ""

----------------------------------------------------------------------------
(* finder() up to the search *)

Throw(e) ==
    /\ pc' = "error"
    /\ error' = e
    /\ frames' = <<>>
    /\ optStack' = <<>>

\* mutant of IsRootTag: the test for html is missing
IsRootTagNever(e) == FALSE

\* 'html' === input.tagName.toLowerCase()
IsRootTag(e) == tree.node[e].tag = "html"

\* the input is not an element
StartInvalid ==
    /\ pc = "start"
    /\ input = 0
    /\ Throw("InvalidInput")
    /\ UNCHANGED <<tree, input, options, config, rootDocument, started, scope,
                   found, emitted, tested, queries, overflows, chosen, result>>

\* the input's tag is html: return 'html'
StartRoot ==
    /\ pc = "start"
    /\ input # 0
    /\ IsRootTag(input)
    /\ pc' = "done"
    /\ result' = <<[name |-> Name("tag", "", "html"), comb |-> "$"]>>
    /\ UNCHANGED <<tree, input, options, config, rootDocument, frames, started,
                   optStack, scope, found, emitted, tested, queries, overflows,
                   chosen, error>>

\* merge the options, find the root document, call the search with "all"
StartSearch ==
    /\ pc = "start"
    /\ input # 0
    /\ ~IsRootTag(input)
    /\ config' = Merge(defaults, options)
    /\ rootDocument' = "document"
    /\ pc' = "search"
    /\ frames' = <<NewFrame("all")>>
    /\ started' = <<"all">>
    /\ UNCHANGED <<tree, input, options, optStack, scope, found, emitted,
                   tested, queries, overflows, chosen, result, error>>

----------------------------------------------------------------------------
(* finder__bottomUpSearch *)

\* the search as a whole returns v to finder()
SearchReturns(v) ==
    /\ frames' = <<>>
    /\ found' = v
    /\ IF v # Null
       THEN /\ pc' = "optimize"
            /\ optStack' = <<[path |-> v, i |-> 1]>>
            /\ scope' = [counter |-> 0, visited |-> {}]
            /\ error' = error
       ELSE /\ pc' = "error"
            /\ error' = "NoUniqueSelector"
            /\ optStack' = optStack
            /\ scope' = scope

\* finder__findUniquePath(stack, fallback) called by the topmost activation f,
\* which goes on at pathAt with the path found, or as onNull without one;
\* waitAt is where it waits for the fallback it calls
Attempt(f, waitAt, pathAt, onNull) ==
    \E r \in {finder__findUniquePath(f.stack, HasFallback(f.limit))} :
        /\ queries' = queries + r.tests
        /\ overflows' = IF r.overflow THEN overflows + 1 ELSE overflows
        /\ CASE r.kind = "throw" ->
                  /\ Throw("OracleInconsistency")
                  /\ UNCHANGED <<started, scope, found>>
             [] r.kind = "fallback" ->
                  /\ frames' = Append(SetTop([f EXCEPT !.at = waitAt]),
                                      NewFrame(NextLimit(f.limit)))
                  /\ started' = Append(started, NextLimit(f.limit))
                  /\ UNCHANGED <<pc, error, optStack, scope, found>>
             [] r.kind = "path" ->
                  /\ frames' = SetTop([f EXCEPT !.path = r.path, !.at = pathAt])
                  /\ UNCHANGED <<pc, error, optStack, scope, found, started>>
             [] OTHER ->
                  /\ frames' = SetTop(onNull)
                  /\ UNCHANGED <<pc, error, optStack, scope, found, started>>

\* mutant of SeedReached: an attempt is made at every height of the stack
SeedReachedAlways(f) == TRUE

\* stack.length >= finder__config.seedMinLength
SeedReached(f) == Len(f.stack) >= config.seedMinLength

\* one iteration of the while loop
Iterate ==
    /\ pc = "search"
    /\ Top.at = "loop"
    /\ Top.current # 0
    /\ \E f \in {[Top EXCEPT !.stack = Append(Top.stack,
                                             Level(Top.current, Top.limit, Top.i))]} :
           IF SeedReached(f)
           THEN Attempt(f, "w_loop", "final", Advance(f))
           ELSE /\ frames' = SetTop(Advance(f))
                /\ UNCHANGED <<pc, error, optStack, scope, found, started, queries,
                               overflows>>
    /\ UNCHANGED <<tree, input, options, config, rootDocument, emitted, tested,
                   chosen, result>>

\* behind the loop without a path: if (!path) path = finder__findUniquePath(...)
FinalAttempt ==
    /\ pc = "search"
    /\ \/ Top.at = "final"
       \/ Top.at = "loop" /\ Top.current = 0
    /\ Top.path = Null
    /\ Attempt(Top, "w_final", "tail", [Top EXCEPT !.at = "tail"])
    /\ UNCHANGED <<tree, input, options, config, rootDocument, emitted, tested,
                   chosen, result>>

\* if (!path && fallback) return fallback(); return path
\* (with a path, the statements behind the loop do nothing but return it)
Return ==
    /\ pc = "search"
    /\ \/ Top.at = "tail"
       \/ Top.at = "final" /\ Top.path # Null
    /\ IF Top.path = Null /\ HasFallback(Top.limit)
       THEN /\ frames' = Append(SetTop([Top EXCEPT !.at = "w_tail"]),
                                NewFrame(NextLimit(Top.limit)))
            /\ started' = Append(started, NextLimit(Top.limit))
            /\ UNCHANGED <<pc, error, optStack, scope, found>>
       ELSE /\ started' = started
            /\ \E callers \in {Unwind(frames, Top.path)} :
                 IF callers = <<>>
                 THEN SearchReturns(Top.path)
                 ELSE /\ frames' = callers
                      /\ UNCHANGED <<pc, error, optStack, scope, found>>
    /\ UNCHANGED <<tree, input, options, config, rootDocument, emitted, tested,
                   queries, overflows, chosen, result>>

----------------------------------------------------------------------------
(* finder__optimize as a call stack of generator activations; finder()
   drains the generator, so every activation runs to its end *)

OptTop == optStack[Len(optStack)]

OptPop == SubSeq(optStack, 1, Len(optStack) - 1)

\* mutant of Splice: nothing is removed, as by newPath.splice(i, 0)
SpliceNone(path, i) == path

\* mutant of Splice: the fragment is replaced by the wildcard instead of
\* being removed
SpliceAny(path, i) ==
    [path EXCEPT ![i + 1] = [name |-> Name("any", "", "*"), penalty |-> 6,
                             level |-> @.level]]

\* newPath = [...path]; newPath.splice(i, 1)
Splice(path, i) == SubSeq(path, 1, i) \o SubSeq(path, i + 2, Len(path))

\* mutant of Visited: the memo table is never consulted
VisitedNever(sc, newPathKey) == FALSE

\* scope.visited.has(newPathKey)
Visited(sc, newPathKey) == newPathKey \in sc.visited

\* mutant of OptLoopOn: the configured minimum length is not looked at
OptLoopOnNoMin(f) ==
    /\ Len(f.path) > 2
    /\ f.i < Len(f.path) - 1

\* the loop of the topmost activation may run its iteration i
OptLoopOn(f) ==
    /\ Len(f.path) > 2
    /\ Len(f.path) > config.optimizedMinLength
    /\ f.i < Len(f.path) - 1

\* the topmost activation ends: its loop is over or was never entered, or
\* the budget of tries is used up
OptimizeEnd ==
    /\ pc = "optimize"
    /\ optStack # <<>>
    /\ \/ ~OptLoopOn(OptTop)
       \/ scope.counter > config.maxNumberOfTries
    /\ optStack' = OptPop
    /\ UNCHANGED <<tree, input, options, config, rootDocument, pc, frames,
                   started, scope, found, emitted, tested, queries, overflows,
                   chosen, result, error>>

\* one iteration of the loop of the topmost activation
OptimizeTry ==
    /\ pc = "optimize"
    /\ optStack # <<>>
    /\ OptLoopOn(OptTop)
    /\ scope.counter <= config.maxNumberOfTries
    /\ \E newPath \in {Splice(OptTop.path, OptTop.i)} :
       \E newPathKey \in {finder__selector(newPath)} :
       \E outcome \in {finder__unique(newPath)} :
       LET next    == [OptTop EXCEPT !.i = OptTop.i + 1]
           counted == [scope EXCEPT !.counter = scope.counter + 1]
       IN  IF Visited(scope, newPathKey)
           THEN \* already visited: this activation returns
                /\ optStack' = OptPop
                /\ scope' = counted
                /\ UNCHANGED <<pc, error, frames, emitted, tested, queries>>
           ELSE /\ tested' = Append(tested, newPathKey)
                /\ CASE outcome = "throw" ->
                          /\ Throw("OracleInconsistency")
                          /\ queries' = queries + 1
                          /\ scope' = counted
                          /\ emitted' = emitted
                     [] outcome = "true" ->
                          /\ queries' = queries + 2
                          /\ IF finder__same(newPath, input)
                             THEN /\ emitted' = Append(emitted, newPath)
                                  /\ scope' = [counted EXCEPT
                                                 !.visited = @ \cup {newPathKey}]
                                  /\ optStack' =
                                       Append([optStack EXCEPT ![Len(optStack)] = next],
                                              [path |-> newPath, i |-> 1])
                             ELSE /\ emitted' = emitted
                                  /\ scope' = counted
                                  /\ optStack' = [optStack EXCEPT ![Len(optStack)] = next]
                          /\ UNCHANGED <<pc, error, frames>>
                     [] OTHER ->
                          /\ queries' = queries + 1
                          /\ emitted' = emitted
                          /\ scope' = counted
                          /\ optStack' = [optStack EXCEPT ![Len(optStack)] = next]
                          /\ UNCHANGED <<pc, error, frames>>
    /\ UNCHANGED <<tree, input, options, config, rootDocument, started, found,
                   overflows, chosen, result>>

\* the generator is drained: sort what it yielded, take the first, assemble
Finish ==
    /\ pc = "optimize"
    /\ optStack = <<>>
    /\ LET optimized == finder__sort(emitted)
           path      == IF Len(optimized) > 0 THEN optimized[1] ELSE found
       IN  /\ chosen' = path
           /\ result' = finder__selector(path)
    /\ pc' = "done"
    /\ UNCHANGED <<tree, input, options, config, rootDocument, frames, started,
                   optStack, scope, found, emitted, tested, queries, overflows,
                   error>>

----------------------------------------------------------------------------

Next ==
    \/ StartInvalid
    \/ StartRoot
    \/ StartSearch
    \/ Iterate
    \/ FinalAttempt
    \/ Return
    \/ OptimizeTry
    \/ OptimizeEnd
    \/ Finish

Spec == Init /\ [][Next]_vars

----------------------------------------------------------------------------
(* Properties *)

Terminated == pc \in {"done", "error"}

Matched(q) == querySelectorAll(q)

\* the query '#<id>' and the query 'html'
IdQuery(id) == <<[name |-> Name("id", "", id), comb |-> "$"]>>

HtmlQuery == <<[name |-> Name("tag", "", "html"), comb |-> "$"]>>

\* C1: under the default configuration finder() returns, for every element,
\* a query that matches exactly one element, and that element is the input.
C1_ReturnsUniqueQuery ==
    (Terminated /\ input # 0 /\ options = <<>>) =>
        /\ pc = "done"
        /\ Cardinality(Matched(result)) = 1
        /\ querySelector(result) = input

\* C2: every path the optimizer yields, at any depth of its recursion, is
\* strictly shorter than the path that activation was given (and so than
\* the path the search found), and its query matches exactly one element,
\* the input.
C2_EmittedShorterUniqueSame ==
    /\ \A k \in DOMAIN emitted :
         /\ Len(emitted[k]) < Len(found)
         /\ Cardinality(Matched(finder__selector(emitted[k]))) = 1
         /\ querySelector(finder__selector(emitted[k])) = input
    /\ \A j \in DOMAIN optStack :
         j > 1 => /\ Len(optStack[j].path) < Len(optStack[j - 1].path)
                  /\ \E k \in DOMAIN emitted : emitted[k] = optStack[j].path

C2_Witness ==
    /\ pc = "done"
    /\ \E k \in DOMAIN emitted : Len(emitted[k]) + 2 <= Len(found)

\* C3: no path the optimizer yields has a greater total penalty than the
\* path the search found, and neither has the path the result is assembled
\* from.
C3_PenaltyMonotone ==
    /\ \A k \in DOMAIN emitted :
         finder__penalty(emitted[k]) <= finder__penalty(found)
    /\ chosen # Null => finder__penalty(chosen) <= finder__penalty(found)

C3_Witness ==
    /\ pc = "done"
    /\ Len(emitted) > 1
    /\ chosen # found
    /\ finder__penalty(chosen) < finder__penalty(found)

\* C4: when some stack had more candidates than the threshold (which is at
\* least 1), finder() raises no error: it returns a query that matches
\* exactly one element, the input.
C4_OverflowStillReturns ==
    (Terminated /\ overflows > 0 /\ config.threshold >= 1) =>
        /\ pc = "done"
        /\ Cardinality(Matched(result)) = 1
        /\ querySelector(result) = input

\* C5: for an element that is not the document element (threshold at least
\* 1) the walk of the policy "none" always ends with a path, so finder()
\* never raises 'Selector was not found'.
C5_NoneNeverFails ==
    /\ error # "NoUniqueSelector"
    /\ \A j \in DOMAIN frames :
         (frames[j].limit = "none" /\ frames[j].at = "tail")
            => frames[j].path # Null

\* the order in which the policies are nested
PolicyOrder == <<"all", "two", "one", "none">>

\* C6: the policies are tried in the order all, two, one, none: a walk is
\* started only by the walk of the policy before it, which waits for it
\* without a path, either behind its own walk up to the root or on a stack
\* with more candidates than the threshold; and once a walk has a path no
\* further walk is started and that path becomes the result of the search.
C6_NestedInOrder ==
    \A j \in DOMAIN frames :
        /\ frames[j].limit = PolicyOrder[j]
        /\ j < Len(frames) =>
             /\ frames[j].path = Null
             /\ \/ frames[j].at = "w_tail" /\ frames[j].current = 0
                \/ /\ frames[j].at \in {"w_loop", "w_final"}
                   /\ Len(finder__combinations(frames[j].stack, <<>>))
                        > config.threshold

C6_PathEndsSearch ==
    (pc = "search" /\ Top.path # Null) =>
        /\ started' = started
        /\ IF pc' = "search"
           THEN Top'.path = Top.path /\ Len(frames') <= Len(frames)
           ELSE pc' = "optimize" /\ found' = Top.path

C6_PolicyOrder == []C6_NestedInOrder /\ [][C6_PathEndsSearch]_vars

C6_Witness ==
    /\ pc = "optimize"
    /\ started = <<"all", "two", "one", "none">>
    /\ found # Null

\* C7 as claimed: within one optimization pass no query is given to the
\* uniqueness test twice, whether its first test succeeded or failed.
C7_NoRetest ==
    \A i, j \in DOMAIN tested : i # j => tested[i] # tested[j]

\* C7 as amended: within one optimization pass a query whose test succeeded
\* (one match, the input) is never given to the uniqueness test again.
C7_NoRetestOfEmitted ==
    \A i, j \in DOMAIN tested :
        (i < j /\ \E k \in DOMAIN emitted : finder__selector(emitted[k]) = tested[i])
            => tested[i] # tested[j]

\* the memo table has stopped a branch: a try was counted without a test
C7_Witness ==
    /\ pc = "done"
    /\ emitted # <<>>
    /\ scope.counter > Len(tested)

\* C8 as claimed: under the default configuration a target whose id no other
\* element has gets exactly the query '#<id>'.
C8_UniqueIdQuery ==
    ( /\ pc = "done"
      /\ input # 0
      /\ options = <<>>
      /\ tree.node[input].id # ""
      /\ \A e \in 1..tree.n : e # input => tree.node[e].id # tree.node[input].id )
    => result = IdQuery(tree.node[input].id)

\* C8 as amended: under the default configuration a target that is not an
\* html element and whose id no other element has gets exactly the query
\* '#<id>': finder() returns, and what it returns is that query.
C8_UniqueIdQueryNonRoot ==
    ( /\ Terminated
      /\ input # 0
      /\ options = <<>>
      /\ tree.node[input].tag # "html"
      /\ tree.node[input].id # ""
      /\ \A e \in 1..tree.n : e # input => tree.node[e].id # tree.node[input].id )
    => (pc = "done" /\ result = IdQuery(tree.node[input].id))

C8_Witness ==
    /\ pc = "done"
    /\ input > 1
    /\ options = <<>>
    /\ tree.n > 2
    /\ \A e \in 1..tree.n : e # input => tree.node[e].id # tree.node[input].id
    /\ result = IdQuery("a")

\* the input has no id and a sibling with the same tag, classes and
\* attributes
HasTwin ==
    /\ input # 0
    /\ tree.node[input].id = ""
    /\ \E s \in 1..tree.n :
         /\ s # input
         /\ tree.parent[s] = tree.parent[input]
         /\ tree.node[s] = tree.node[input]

\* C9: the query returned for an input without id that has a twin sibling
\* has a sibling-position qualifier on the input's own fragment.
C9_TwinNeedsPosition ==
    (pc = "done" /\ HasTwin) => result[Len(result)].name.nth # 0

C9_Witness ==
    /\ pc = "done"
    /\ HasTwin
    /\ result[Len(result)].name.nth = finder__index(input)
    /\ finder__index(input) > 1

\* C10: for the document element finder() returns 'html' and does nothing
\* else: no tree query, no walk, no stack, no change of the configuration.
C10_RootShortCircuit ==
    (input # 0 /\ tree.parent[input] = 0) =>
        /\ queries = 0
        /\ started = <<>>
        /\ frames = <<>>
        /\ config = Undefined
        /\ rootDocument = Undefined
        /\ Terminated => (pc = "done" /\ result = HtmlQuery)

C10_Witness ==
    /\ pc = "done"
    /\ input = 1
    /\ result = HtmlQuery

\* how far the activation f has come: iteration i of its loop, waiting for
\* the fallback called there, behind the loop, at its last statements
WalkPos(f) ==
    CASE f.at = "loop"    -> 2 * f.i
      [] f.at = "w_loop"  -> 2 * f.i + 1
      [] f.at = "final"   -> 2 * tree.n + 2
      [] f.at = "w_final" -> 2 * tree.n + 3
      [] f.at = "tail"    -> 2 * tree.n + 4
      [] OTHER            -> 2 * tree.n + 5

\* what is left of the walks, the outer walk counting more than any inner
SearchRank ==
    LET base      == 2 * tree.n + 7
        digit(j)  == IF j <= Len(frames)
                     THEN 2 * tree.n + 6 - WalkPos(frames[j]) ELSE 0
    IN  digit(1) * base ^ 3 + digit(2) * base ^ 2 + digit(3) * base + digit(4)

\* what is left of the loops of the optimizer's activations, the outer
\* activation counting more than any inner
RECURSIVE OptRank(_)
OptRank(k) ==
    IF k > tree.n THEN 0
    ELSE (IF k <= Len(optStack)
          THEN Len(optStack[k].path) - optStack[k].i + 1 ELSE 0)
            * (tree.n + 1) ^ (tree.n - k)
         + OptRank(k + 1)

\* a natural number that measures what is left of the call
Rank ==
    CASE pc = "start"    -> (tree.n + 1) ^ tree.n + (2 * tree.n + 7) ^ 4 + 2
      [] pc = "search"   -> (tree.n + 1) ^ tree.n + SearchRank + 1
      [] pc = "optimize" -> OptRank(1) + 1
      [] OTHER           -> 0

\* the call has ended with a query or an error, or its next statement is
\* ready: a walk that is not waiting for a callee is on top of the stack,
\* or the optimizer runs
EndedOrRunning ==
    \/ pc = "done" /\ result # Null
    \/ pc = "error" /\ error # ""
    \/ pc = "start"
    \/ pc = "optimize"
    \/ /\ pc = "search"
       /\ frames # <<>>
       /\ Len(frames) <= 4
       /\ Top.at \in {"loop", "final", "tail"}
       /\ Top.at = "loop" => Top.i <= tree.n

\* C11: every call of finder() ends, for every document, target and
\* configuration, returning a query or throwing an error: what is left of
\* the call is a natural number that every step makes smaller (a walk moves
\* to the parent or leaves its loop, the chain of fallbacks has four links,
\* an optimizer activation moves on in its path or ends), and a call that
\* has not ended can always take a step.
C11_Terminates ==
    /\ [](EndedOrRunning /\ Rank \in Nat)
    /\ [][Rank' < Rank]_vars

\* a call that walked all four policies, optimized and returned
C11_Witness ==
    /\ pc = "done"
    /\ started = <<"all", "two", "one", "none">>
    /\ emitted # <<>>
    /\ result # Null

\* C12: the shared counter caps the removal attempts of one optimization
\* pass at the configured maximum: the number of attempts (and so of oracle
\* tests of the optimizer) never exceeds maxNumberOfTries, and what was
\* emitted before the cap stays emitted.
C12_AttemptsCapped ==
    pc \in {"optimize", "done"} /\ scope # Undefined =>
        /\ scope.counter <= config.maxNumberOfTries
        /\ Len(tested) <= config.maxNumberOfTries

\* the k-th ancestor of e (e itself for k = 0)
RECURSIVE NthAncestor(_, _)
NthAncestor(e, k) == IF k = 0 THEN e ELSE NthAncestor(tree.parent[e], k - 1)

\* the admissible fragments the element e offers, in the order of priority:
\* identifier, attributes, classes, tag
Offered(e) ==
    SelectSeq(<<finder__id(e)>>, finder__notEmpty) \o finder__attr(e)
        \o finder__classNames(e) \o SelectSeq(<<finder__tagName(e)>>, finder__notEmpty)

\* the fragments of a level without the level number stamped on them
Knots(level) ==
    [ m \in DOMAIN level |-> Knot(level[m].name, level[m].penalty) ]

\* C13 as claimed: under the policy "all" the level of a node holds the
\* admissible fragments of every kind the node offers (identifier,
\* attributes, classes, tag; the wildcard only when there is none),
\* followed by the position-qualified clones of the dispensable ones.
C13_EveryKind ==
    (pc = "search" /\ Top.limit = "all") =>
        \A k \in DOMAIN Top.stack :
            \A e \in {NthAncestor(input, k - 1)} :
            \A base \in {IF Offered(e) = <<>> THEN <<finder__any>> ELSE Offered(e)} :
                Knots(Top.stack[k]) = base \o NthClones(base, finder__index(e))

\* C13 as amended: under the policy "all" the level of a node holds the
\* admissible fragments of one kind only, the first kind in the order
\* identifier, attributes, classes, tag, wildcard of which the node offers
\* any (the kind of the first fragment on offer), all of that kind and in
\* their order, followed by the position-qualified clones of the
\* dispensable ones.
C13_FirstKindOnly ==
    (pc = "search" /\ Top.limit = "all") =>
        \A k \in DOMAIN Top.stack :
            \A e \in {NthAncestor(input, k - 1)} :
            \A offer \in {Offered(e) \o <<finder__any>>} :
            \A base \in {SelectSeq(offer,
                                   LAMBDA x : x.name.kind = offer[1].name.kind)} :
                Knots(Top.stack[k]) = base \o NthClones(base, finder__index(e))

\* a level of "all" for a node that offers an attribute, classes and a tag:
\* it holds the attribute and its clone only
C13_Witness ==
    /\ pc = "search"
    /\ Top.limit = "all"
    /\ \E k \in DOMAIN Top.stack :
         /\ Len(Offered(NthAncestor(input, k - 1))) = 4
         /\ Len(Top.stack[k]) = 2

\* the candidates of the stack of the running walk, in enumeration order
Candidates == finder__combinations(Top.stack, <<>>)

\* the places of the unique ones among the candidates cands
UniqueOf(cands) ==
    { k \in DOMAIN cands : finder__unique(cands[k]) = "true" }

\* the places of the unique ones among the candidates of the running walk
UniqueCandidates == UniqueOf(Candidates)

\* the running walk has made an attempt on the stack it has now
Attempted ==
    \/ Top.at = "tail"
    \/ Top.at = "final"
    \/ Top.at = "loop" /\ Top.i >= 1 /\ Len(Top.stack) >= config.seedMinLength

\* C14: an attempt on a stack with no more candidates than the threshold
\* returns a unique candidate of the cartesian product of the levels whose
\* total penalty no unique candidate of the product undercuts, and returns
\* none only if no candidate of the product is unique.
C14_MinimalUnique ==
    (pc = "search" /\ Attempted) =>
        \A cands \in {Candidates} :
            Len(cands) <= config.threshold =>
                IF Top.path # Null
                THEN /\ \E k \in DOMAIN cands : cands[k] = Top.path
                     /\ finder__unique(Top.path) = "true"
                     /\ \A least \in {finder__penalty(Top.path)} :
                        \A m \in DOMAIN cands :
                            finder__penalty(cands[m]) < least
                                => finder__unique(cands[m]) # "true"
                ELSE UniqueOf(cands) = {}

\* an attempt passed over a cheaper candidate that is not unique and
\* returned a unique one that a dearer candidate precedes in the
\* enumeration, while a dearer unique candidate exists as well
C14_Witness ==
    /\ pc = "search"
    /\ Top.path # Null
    /\ Len(Candidates) <= config.threshold
    /\ \E k \in DOMAIN Candidates :
         /\ k \notin UniqueCandidates
         /\ finder__penalty(Candidates[k]) < finder__penalty(Top.path)
    /\ \E k, m \in DOMAIN Candidates :
         /\ k < m
         /\ Candidates[m] = Top.path
         /\ finder__penalty(Candidates[k]) > finder__penalty(Top.path)
    /\ \E k \in UniqueCandidates :
         finder__penalty(Candidates[k]) > finder__penalty(Top.path)

\* the place the fragment of level k of the candidate p has in that level
\* of the stack of the running walk
PlaceIn(p, k) == CHOOSE m \in DOMAIN Top.stack[k] : Top.stack[k][m] = p[k]

\* p comes before q in an enumeration in which level 1 (the target's) is
\* the slowest and the last level (the outermost) the fastest to vary
BeforeTargetSlowest(p, q) ==
    \E k \in DOMAIN p :
        /\ PlaceIn(p, k) < PlaceIn(q, k)
        /\ \A l \in 1..(k - 1) : p[l] = q[l]

\* p comes before q in an enumeration in which level 1 (the target's) is
\* the fastest and the last level (the outermost) the slowest to vary
BeforeTargetFastest(p, q) ==
    \E k \in DOMAIN p :
        /\ PlaceIn(p, k) < PlaceIn(q, k)
        /\ \A l \in (k + 1)..Len(p) : p[l] = q[l]

\* the path an attempt of the running walk returned on its stack
Returned ==
    /\ pc = "search"
    /\ Top.path # Null
    /\ Len(Candidates) <= config.threshold

\* C15 as claimed: among the unique candidates of its penalty, the
\* candidate an attempt returns is the first in the order of an
\* enumeration that varies the target's level fastest and the outermost
\* level slowest.
C15_TargetFastest ==
    (pc = "search" /\ Top.path # Null) =>
        \A cands \in {Candidates} :
            Len(cands) <= config.threshold =>
                \A same \in {finder__penalty(Top.path)} :
                \A m \in DOMAIN cands :
                    \/ cands[m] = Top.path
                    \/ finder__penalty(cands[m]) # same
                    \/ BeforeTargetFastest(Top.path, cands[m])
                    \/ finder__unique(cands[m]) # "true"

\* C15 as amended: among the unique candidates of its penalty, the
\* candidate an attempt returns is the first in the order of an
\* enumeration that varies the target's level slowest and the outermost
\* level fastest.
C15_TargetSlowest ==
    (pc = "search" /\ Top.path # Null) =>
        \A cands \in {Candidates} :
            Len(cands) <= config.threshold =>
                \A same \in {finder__penalty(Top.path)} :
                \A m \in DOMAIN cands :
                    \/ cands[m] = Top.path
                    \/ finder__penalty(cands[m]) # same
                    \/ BeforeTargetSlowest(Top.path, cands[m])
                    \/ finder__unique(cands[m]) # "true"

\* two unique candidates of the same penalty that differ in the target's
\* level and in an outer level, the returned one with the earlier fragment
\* of the target's level and the later fragment of the outer level
C15_Witness ==
    /\ Returned
    /\ \E m \in UniqueCandidates :
         /\ finder__penalty(Candidates[m]) = finder__penalty(Top.path)
         /\ BeforeTargetSlowest(Top.path, Candidates[m])
         /\ BeforeTargetFastest(Candidates[m], Top.path)

\* C16: every query the search can test, under any policy (every candidate
\* of a stack the running walk made an attempt on), and every query the
\* optimizer tests
\* matches at least the target, so the error for a query without a match
\* is never raised.
C16_TargetAlwaysMatched ==
    /\ error # "OracleInconsistency"
    /\ (pc = "search" /\ Attempted) =>
           \A cands \in {Candidates} :
               \A k \in DOMAIN cands :
                   \A q \in {finder__selector(cands[k])} :
                       MatchesQuery(input, q, Len(q))
    /\ \A k \in DOMAIN tested : MatchesQuery(input, tested[k], Len(tested[k]))

\* a call that tested queries in all four policies and in the optimizer,
\* one of them with more matches than the target
C16_Witness ==
    /\ pc = "done"
    /\ started = <<"all", "two", "one", "none">>
    /\ queries > Len(tested)
    /\ \E k \in DOMAIN tested : Cardinality(Matched(tested[k])) > 1

\* the number of elements on the chain from the target up to the root
ChainLength == Cardinality(Chain(tree.parent, input))

\* some candidate of the lowest g levels of the stack of the running walk
\* is unique
UniqueAt(g) ==
    \E cands \in {finder__combinations(SubSeq(Top.stack, 1, g), <<>>)} :
        \E k \in DOMAIN cands : finder__unique(cands[k]) = "true"

\* the path of a walk without overflow has as many fragments as the stack
\* is high; that height is at least seedMinLength, or the whole chain; and
\* no lower height from seedMinLength on has a unique candidate
C17_StopsAtFirstHeight ==
    Returned =>
        /\ finder__unique(Top.path) = "true"
        /\ Len(Top.path) = Len(Top.stack)
        /\ Len(Top.stack) >= config.seedMinLength \/ Len(Top.stack) = ChainLength
        /\ \A g \in config.seedMinLength..(Len(Top.stack) - 1) : ~UniqueAt(g)

\* a step of the search that tests a query is made on a stack of at least
\* seedMinLength levels, or behind the loop, when no ancestor remains
C17_NoEarlyAttempt ==
    (pc = "search" /\ queries' # queries) =>
        \/ Len(frames'[Len(frames)].stack) >= config.seedMinLength
        \/ Top.current = 0

\* C17: in a walk without overflow no attempt is made while the stack is
\* lower than seedMinLength and ancestors remain, and the walk stops at the
\* first height from seedMinLength on at which a candidate is unique: its
\* path has exactly that many fragments (the whole chain's length when only
\* the attempt behind the loop succeeds).
C17_SeedLength == []C17_StopsAtFirstHeight /\ [][C17_NoEarlyAttempt]_vars

\* a walk that failed at the height seedMinLength and stopped higher up
\* with ancestors still left
C17_Witness ==
    /\ Returned
    /\ Len(Top.stack) > config.seedMinLength
    /\ Top.current # 0
    /\ parentElement(Top.current) # 0

\* a is a subsequence of b
RECURSIVE IsSubsequence(_, _)
IsSubsequence(a, b) ==
    IF a = <<>> THEN TRUE
    ELSE IF b = <<>> THEN FALSE
    ELSE IF Head(a) = Head(b) THEN IsSubsequence(Tail(a), Tail(b))
    ELSE IsSubsequence(a, Tail(b))

\* max(2, optimizedMinLength)
MinOptimized ==
    IF config.optimizedMinLength > 2 THEN config.optimizedMinLength ELSE 2

\* C18: the optimizer yields nothing (and tests nothing) for a path of at
\* most 2 or at most optimizedMinLength fragments; every path it yields
\* keeps the first (the target's) and the last (the outermost) fragment of
\* the path it was given, is a subsequence of it, and has at least
\* max(2, optimizedMinLength) fragments.
C18_InteriorOnly ==
    found # Null =>
        /\ Len(found) <= MinOptimized => (emitted = <<>> /\ tested = <<>>)
        /\ \A k \in DOMAIN emitted :
             /\ emitted[k][1] = found[1]
             /\ emitted[k][Len(emitted[k])] = found[Len(found)]
             /\ IsSubsequence(emitted[k], found)
             /\ Len(emitted[k]) >= MinOptimized

\* both inner fragments of a path of four were removed
C18_Witness ==
    /\ pc = "done"
    /\ Len(found) = 4
    /\ \E k \in DOMAIN emitted : Len(emitted[k]) = 2

\* the element the fragment x was made for: the level-th ancestor of the
\* target
NodeOf(x) == NthAncestor(input, x.level)

\* in the query q of the path, the fragments path[j] (outer) and path[j - 1]
\* (inner) are joined by ">" exactly when the inner one's element is a child
\* of the outer one's, and by " " otherwise
JoinedByKinship(path, q) ==
    /\ Len(q) = Len(path)
    /\ \A j \in 2..Len(path) :
         q[Len(path) + 1 - j].comb =
             IF tree.parent[NodeOf(path[j - 1])] = NodeOf(path[j])
             THEN ">" ELSE " "

\* the query q of the path has " " exactly between two fragments between
\* which a fragment of the path the search found is missing
DescendantWhereRemoved(path, q) ==
    \A j \in 2..Len(path) :
        q[Len(path) + 1 - j].comb = " "
            <=> \E k \in DOMAIN found :
                  /\ path[j - 1].level < found[k].level
                  /\ found[k].level < path[j].level
                  /\ \A m \in DOMAIN path : path[m] # found[k]

\* C19: in every assembled query two neighbouring fragments are joined by
\* the child combinator exactly when the inner one's node is a child of the
\* outer one's node, and by the descendant combinator otherwise; the path
\* the search returns has the depths 0, 1, 2, ... and child combinators
\* only; a descendant combinator stands exactly where the optimizer removed
\* fragments.
C19_CombinatorByDepth ==
    /\ (pc = "search" /\ Top.path # Null) =>
           JoinedByKinship(Top.path, finder__selector(Top.path))
    /\ found # Null =>
           \A q \in {finder__selector(found)} :
               /\ JoinedByKinship(found, q)
               /\ \A k \in DOMAIN found : found[k].level = k - 1
               /\ \A k \in 1..(Len(found) - 1) : q[k].comb = ">"
    /\ \A k \in DOMAIN emitted :
           \A q \in {finder__selector(emitted[k])} :
               /\ JoinedByKinship(emitted[k], q)
               /\ DescendantWhereRemoved(emitted[k], q)
    /\ (pc = "done" /\ chosen # Null) =>
           /\ JoinedByKinship(chosen, result)
           /\ DescendantWhereRemoved(chosen, result)

\* a returned query with a child and a descendant combinator
C19_Witness ==
    /\ pc = "done"
    /\ chosen # Null
    /\ \E k, m \in DOMAIN result : result[k].comb = ">" /\ result[m].comb = " "

\* C20: within one call of finder() the walk of each policy is started at
\* most once: a fallback that was called and returned no path is not called
\* again.
C20_StartedOnce ==
    \A i, j \in DOMAIN started : i # j => started[i] # started[j]

----------------------------------------------------------------------------
====
